---- MODULE Spec2Model ----
(***************************************************************************)
(* A model of batch-transcode (src/batch_transcode): the commands          *)
(* `batch`, `transcode` and `find` of cli.py, the generators of            *)
(* transcode.py and the path rules of models.py.                           *)
(*                                                                         *)
(* A file name is a sequence of tokens; "." is a token of its own, so the  *)
(* suffix rules of pathlib and str.endswith are computed on the name as    *)
(* the code computes them on the string.  The filesystem is a function     *)
(* from the paths of the existing regular files to their content.          *)
(* The external tools (ffmpeg, vcsi, MediaInfo) are the environment: their *)
(* exit status or answer is chosen nondeterministically.                   *)
(***************************************************************************)
EXTENDS Integers, Sequences, FiniteSets, TLC

VARIABLES
    pc,             \* position of the running command
    cmd,            \* "batch" | "transcode" | "find" | "name"
    move_source,    \* batch --move-source (NoDir when not given)
    delete_source,  \* --delete-source
    method,         \* find --method
    limit,          \* find --limit (NoLimit when not given)
    video_path,     \* transcode's argument
    fs,             \* path -> content, for the existing regular files
    fs0,            \* the filesystem when the command was first started
    dirsTodo,       \* directories glob("**/*") has not listed yet
    snapshot,       \* entries of the listed directory not yet yielded
    cur,            \* the TranscodeFiles of the file being processed
    log,            \* history: process invocations, exits, renames, removes
    run,            \* number of the batch run (a rerun follows a clean run)
    err,            \* the exception that ended the command ("" when none)
    yielded,        \* find: what the generator has yielded
    probed,         \* find: the files is_hevc was applied to
    iter,           \* find: _iter
    nm,             \* the name under test (naming specification)
    nmRes           \* its classification

vars == <<pc, cmd, move_source, delete_source, method, limit, video_path, fs,
          fs0, dirsTodo, snapshot, cur, log, run, err, yielded, probed, iter,
          nm, nmRes>>

----------------------------------------------------------------------------
(* Bounds *)

MaxFiles == 4      \* files on disk when the command starts
MaxRuns == 2       \* consecutive batch runs
MaxNameLen == 5    \* tokens of a name in the naming specification

----------------------------------------------------------------------------
(* Paths *)

P(d, n) == [dir |-> d, name |-> n]

NoDir == "None"
NoPath == P("", <<>>)
NoLimit == -1

\* The directories that exist: the batch root, a subdirectory of it, and a
\* directory outside the root tree.
Dirs == {"root", "root/sub", "ext"}

\* Path.is_dir() of a --move-source value
is_dir(d) == d \in Dirs

\* The order in which glob("**/*") lists the tree: a directory, then its
\* subdirectories.
TreeDirs == <<"root", "root/sub">>

InTree(d) == \E i \in 1..Len(TreeDirs) : TreeDirs[i] = d

\* str.lower() of one token
Lower(t) == IF t = "MP4" THEN "mp4" ELSE t

LowerSeq(s) == [i \in 1..Len(s) |-> Lower(s[i])]

\* the index of the last "." of a name, 0 when it has none (str.rfind)
RFindDot(n) ==
    LET S == {i \in 1..Len(n) : n[i] = "."}
    IN  IF S = {} THEN 0 ELSE CHOOSE i \in S : \A j \in S : j <= i

\* PurePath.suffix: from the last dot, unless the dot is first or last
Suffix(n) ==
    LET i == RFindDot(n)
    IN  IF 1 < i /\ i < Len(n) THEN SubSeq(n, i, Len(n)) ELSE <<>>

\* PurePath.with_suffix
with_suffix(n, suffix) ==
    LET old == Suffix(n)
    IN  IF old = <<>> THEN n \o suffix
        ELSE SubSeq(n, 1, Len(n) - Len(old)) \o suffix

\* str.endswith
endswith(s, pat) ==
    /\ Len(s) >= Len(pat)
    /\ SubSeq(s, Len(s) - Len(pat) + 1, Len(s)) = pat

\* The extensions of const.py that the token alphabet can spell.
VIDEO_FILE_EXTENSIONS == {<<".", "mp4">>, <<".", "mkv">>}

JpgSuffix == <<".", "jpg">>
X265Mp4Suffix == <<".", "x265", ".", "mp4">>

\* VideoFiles.new: the contact sheet is "<video>.jpg"
VideoFilesNew(video) ==
    [video |-> video, vcs |-> P(video.dir, video.name \o JpgSuffix)]

\* TranscodeFiles.new
TranscodeFilesNew(video_in) ==
    LET video_out == P(video_in.dir, with_suffix(video_in.name, X265Mp4Suffix))
    IN  [input |-> VideoFilesNew(video_in), output |-> VideoFilesNew(video_out)]

NoFiles == [input |-> [video |-> NoPath, vcs |-> NoPath],
            output |-> [video |-> NoPath, vcs |-> NoPath]]

\* the test of get_videos on one entry
IsVideo(f) == LowerSeq(Suffix(f.name)) \in VIDEO_FILE_EXTENSIONS

\* fast() without its test, and with the dotted tag ".x265.mp4" as its test
FastKeepNoFilter(f) == TRUE
FastKeepDotted(f) == ~endswith(f.name, <<".", "x265", ".", "mp4">>)
\* the test of fast(): str(f).endswith("x265.mp4") on the whole path string
FastKeep(f) == ~endswith(f.name, <<"x265", ".", "mp4">>)

\* Path.is_file()
is_file(f, p) == p \in DOMAIN f

----------------------------------------------------------------------------
(* The filesystem primitives *)

Orig(p) == [kind |-> "orig", path |-> p]

\* a rename that leaves the source in place
os_rename_copy(f, src, dst) ==
    [p \in DOMAIN f \cup {dst} |-> IF p = dst THEN f[src] ELSE f[p]]
\* os.rename on one filesystem: replaces the target; onto itself is a no-op
os_rename(f, src, dst) ==
    [p \in (DOMAIN f \ {src}) \cup {dst} |-> IF p = dst THEN f[src] ELSE f[p]]

\* os.remove
os_remove(f, p) == [q \in DOMAIN f \ {p} |-> f[q]]

Write(f, p, c) == [q \in DOMAIN f \cup {p} |-> IF q = p THEN c ELSE f[q]]

----------------------------------------------------------------------------
(* History *)

Ev(e, file, src, dst, status, flags) ==
    [ev |-> e, run |-> run, file |-> file, src |-> src, dst |-> dst,
     status |-> status, flags |-> flags]

\* the command without -n
EncoderFlagsNoN ==
    <<"nice", "--adjustment=20", "ffmpeg", "-hide_banner", "-i", "<in>",
      "-c:v", "libx265", "-c:a", "aac", "-strict", "-2", "<out>">>
\* transcode_vid's cmd: the flags, with the two paths as <in> and <out>
EncoderFlags ==
    <<"nice", "--adjustment=20", "ffmpeg", "-hide_banner", "-n", "-i", "<in>",
      "-c:v", "libx265", "-c:a", "aac", "-strict", "-2", "<out>">>

\* make_contact_sheet's cmd
VcsFlags ==
    <<"nice", "--adjustment=20", "vcsi", "<in>", "-t", "-w", "850", "-g",
      "3x5", "-o", "<out>">>

HasFlag(flags, x) == \E i \in 1..Len(flags) : flags[i] = x

SpawnEncoder(files) ==
    Ev("spawn_enc", files.input.video, files.input.video, files.output.video,
       -1, EncoderFlags)

\* make_contact_sheet(video): vcsi "<video.video>" ... -o "<video.vcs>"
SpawnVcs(file, video) ==
    Ev("spawn_vcs", file, video.video, video.vcs, -1, VcsFlags)

\* run_check: the default of transcode_vid and of make_contact_sheet (TRUE),
\* and the value a caller could pass instead
TranscodeNoCheck == FALSE
TranscodeRunCheck == TRUE
VcsNoCheck == FALSE
VcsRunCheck == TRUE

----------------------------------------------------------------------------
(* The environment: what the external tools can answer *)

\* ffmpeg: it can exit 0 only when it can read its input and, under -n, when
\* its output does not exist; it can always fail.
EncoderStatuses(f, spawn) ==
    {1} \cup
    (IF /\ spawn.src \in DOMAIN f
        /\ (HasFlag(spawn.flags, "-n") => spawn.dst \notin DOMAIN f)
     THEN {0} ELSE {})

\* vcsi: it can exit 0 only when it can read its input; it can always fail.
VcsStatuses(f, spawn) == {1} \cup (IF spawn.src \in DOMAIN f THEN {0} ELSE {})

\* what MediaInfo reports as codec_id of the first video track ("none": the
\* file has no video track, video_tracks[0] raises)
ProbeAnswers == {"hev1", "hvc1", "avc1", "none"}

AfterExit(f, spawn, kind, status) ==
    IF status = 0 THEN Write(f, spawn.dst, [kind |-> kind, path |-> spawn.src])
    ELSE f

----------------------------------------------------------------------------
(* batch: validation of the options *)

\* the options accepted as they come
ConfigErrorNoChecks(mv, del) == ""
\* the two checks batch makes before anything else
ConfigError(mv, del) ==
    IF del /\ mv # NoDir THEN "Abort"
    ELSE IF mv # NoDir /\ ~is_dir(mv) THEN "FileNotFoundError"
    ELSE ""

BatchStart ==
    /\ pc = "start" /\ cmd = "batch"
    /\ LET e == ConfigError(move_source, delete_source)
       IN  IF e # ""
           THEN /\ pc' = "error" /\ err' = e
                /\ UNCHANGED <<dirsTodo, snapshot>>
           ELSE \* get_non_hevc_videos(directory): the generators are created
                /\ pc' = "iter" /\ err' = ""
                /\ dirsTodo' = TreeDirs /\ snapshot' = {}
    /\ UNCHANGED <<cmd, move_source, delete_source, method, limit, video_path,
                   fs, fs0, cur, log, run, yielded, probed, iter, nm, nmRes>>

\* glob("**/*") reaches the next directory and lists it; get_videos keeps the
\* entries with a video extension
ListDir ==
    /\ pc = "iter" /\ snapshot = {} /\ dirsTodo # <<>>
    /\ snapshot' = {p \in DOMAIN fs : p.dir = Head(dirsTodo) /\ IsVideo(p)}
    /\ dirsTodo' = Tail(dirsTodo)
    /\ UNCHANGED <<pc, cmd, move_source, delete_source, method, limit,
                   video_path, fs, fs0, cur, log, run, err, yielded, probed,
                   iter, nm, nmRes>>

----------------------------------------------------------------------------
(* batch: one file *)

\* the loop without its skip
SkipFileNever(f, files) == FALSE
\* "if transcode_files.output.video.is_file(): continue"
SkipFile(f, files) == is_file(f, files.output.video)

\* the generator hands over its next entry; the loop body runs up to the
\* call of the encoder
BatchNext ==
    /\ pc = "iter" /\ cmd = "batch"
    /\ \E vid \in snapshot :
        /\ snapshot' = snapshot \ {vid}
        /\ IF ~FastKeep(vid)
           THEN UNCHANGED <<pc, cur, log>>
           ELSE LET files == TranscodeFilesNew(vid)
                    reach == Ev("reach", vid, vid, files.output.video,
                                IF files.output.video \in DOMAIN fs
                                THEN 1 ELSE 0, <<>>)
                IN  IF SkipFile(fs, files)
                    THEN /\ log' = Append(log, reach)
                         /\ UNCHANGED <<pc, cur>>
                    ELSE /\ log' = log \o <<reach, SpawnEncoder(files)>>
                         /\ cur' = files
                         /\ pc' = "encoding"
    /\ UNCHANGED <<cmd, move_source, delete_source, method, limit, video_path,
                   fs, fs0, dirsTodo, run, err, yielded, probed, iter, nm,
                   nmRes>>

\* the encoder exits; run(check=True) raises on a non-zero status; otherwise
\* make_contact_sheet(transcode_result.files.output) is called
BatchEncoderExit ==
    /\ pc = "encoding" /\ cmd = "batch"
    /\ \E status \in EncoderStatuses(fs, log[Len(log)]) :
        LET spawn == log[Len(log)]
            exit == Ev("exit_enc", spawn.file, spawn.src, spawn.dst, status,
                       spawn.flags)
        IN  /\ fs' = AfterExit(fs, spawn, "enc", status)
            /\ IF status # 0 /\ TranscodeRunCheck
               THEN /\ pc' = "error" /\ err' = "CalledProcessError"
                    /\ log' = Append(log, exit)
               ELSE /\ pc' = "sheeting" /\ err' = err
                    /\ log' = log \o <<exit, SpawnVcs(spawn.file, cur.output)>>
    /\ UNCHANGED <<cmd, move_source, delete_source, method, limit, video_path,
                   fs0, dirsTodo, snapshot, cur, run, yielded, probed, iter,
                   nm, nmRes>>

\* os.rename / os.remove as steps of a handler: s = [fs, err, evs]
DoRename(s, file, src, dst) ==
    IF s.err # "" THEN s
    ELSE IF src \notin DOMAIN s.fs THEN [s EXCEPT !.err = "FileNotFoundError"]
    ELSE [fs |-> os_rename(s.fs, src, dst), err |-> "",
          evs |-> Append(s.evs, Ev("rename", file, src, dst, -1, <<>>))]

DoRemove(s, file, p) ==
    IF s.err # "" THEN s
    ELSE IF p \notin DOMAIN s.fs THEN [s EXCEPT !.err = "FileNotFoundError"]
    ELSE [fs |-> os_remove(s.fs, p), err |-> "",
          evs |-> Append(s.evs, Ev("remove", file, p, NoPath, -1, <<>>))]

\* "if move_source is not None:"
MoveSource(s, files) ==
    LET moved_video ==
            VideoFilesNew(P(move_source, files.input.video.name))
        s1 == DoRename(s, files.input.video, files.input.video,
                       moved_video.video)
    IN  IF s1.err = "" /\ is_file(s1.fs, files.input.vcs)
        THEN DoRename(s1, files.input.video, files.input.vcs, moved_video.vcs)
        ELSE s1

\* "if delete_source:" (batch and transcode alike)
DeleteSource(s, files) ==
    DoRemove(DoRemove(s, files.input.video, files.input.video),
             files.input.video, files.input.vcs)

PostAction(f, files) ==
    LET s0 == [fs |-> f, err |-> "", evs |-> <<>>]
        s1 == IF move_source # NoDir THEN MoveSource(s0, files) ELSE s0
    IN  IF delete_source THEN DeleteSource(s1, files) ELSE s1

\* the contact-sheet tool exits; run(check=True) raises on a non-zero
\* status; otherwise the post-action runs and the loop goes on
BatchVcsExit ==
    /\ pc = "sheeting" /\ cmd = "batch"
    /\ \E status \in VcsStatuses(fs, log[Len(log)]) :
        LET spawn == log[Len(log)]
            exit == Ev("exit_vcs", spawn.file, spawn.src, spawn.dst, status,
                       spawn.flags)
            f1 == AfterExit(fs, spawn, "sheet", status)
            s == PostAction(f1, cur)
        IN  IF status # 0 /\ VcsRunCheck
            THEN /\ pc' = "error" /\ err' = "CalledProcessError"
                 /\ fs' = f1
                 /\ log' = Append(log, exit)
            ELSE /\ fs' = s.fs
                 /\ log' = log \o <<exit>> \o s.evs
                 /\ err' = s.err
                 /\ pc' = IF s.err = "" THEN "iter" ELSE "error"
    /\ UNCHANGED <<cmd, move_source, delete_source, method, limit, video_path,
                   fs0, dirsTodo, snapshot, cur, run, yielded, probed, iter,
                   nm, nmRes>>

\* the generator is exhausted
BatchEnd ==
    /\ pc = "iter" /\ cmd = "batch" /\ snapshot = {} /\ dirsTodo = <<>>
    /\ pc' = "done"
    /\ UNCHANGED <<cmd, move_source, delete_source, method, limit, video_path,
                   fs, fs0, dirsTodo, snapshot, cur, log, run, err, yielded,
                   probed, iter, nm, nmRes>>

\* the same command is given again after a run that ended without error
Rerun ==
    /\ pc = "done" /\ cmd = "batch" /\ run < MaxRuns
    /\ run' = run + 1
    /\ pc' = "start"
    /\ cur' = NoFiles
    /\ UNCHANGED <<cmd, move_source, delete_source, method, limit, video_path,
                   fs, fs0, dirsTodo, snapshot, log, err, yielded, probed,
                   iter, nm, nmRes>>

----------------------------------------------------------------------------
(* transcode *)

TranscodeStart ==
    /\ pc = "start" /\ cmd = "transcode"
    /\ cur' = TranscodeFilesNew(video_path)
    /\ log' = Append(log, SpawnEncoder(TranscodeFilesNew(video_path)))
    /\ pc' = "encoding"
    /\ UNCHANGED <<cmd, move_source, delete_source, method, limit, video_path,
                   fs, fs0, dirsTodo, snapshot, run, err, yielded, probed,
                   iter, nm, nmRes>>

TranscodeEncoderExit ==
    /\ pc = "encoding" /\ cmd = "transcode"
    /\ \E status \in EncoderStatuses(fs, log[Len(log)]) :
        LET spawn == log[Len(log)]
            exit == Ev("exit_enc", spawn.file, spawn.src, spawn.dst, status,
                       spawn.flags)
            f1 == AfterExit(fs, spawn, "enc", status)
            s0 == [fs |-> f1, err |-> "", evs |-> <<>>]
            s == IF delete_source THEN DeleteSource(s0, cur) ELSE s0
        IN  IF status # 0 /\ TranscodeRunCheck
            THEN /\ pc' = "error" /\ err' = "CalledProcessError"
                 /\ fs' = f1
                 /\ log' = Append(log, exit)
            ELSE /\ fs' = s.fs
                 /\ log' = log \o <<exit>> \o s.evs
                 /\ err' = s.err
                 /\ pc' = IF s.err = "" THEN "done" ELSE "error"
    /\ UNCHANGED <<cmd, move_source, delete_source, method, limit, video_path,
                   fs0, dirsTodo, snapshot, cur, run, yielded, probed, iter,
                   nm, nmRes>>

----------------------------------------------------------------------------
(* find *)

Methods == {"fast", "accurate", "semi-accurate"}

\* semi-accurate as a probe of every file
StagesSemiUnlayered(m) ==
    IF m = "fast" THEN <<"fast">> ELSE <<"accurate">>
\* get_non_hevc_videos: the filters a method chains, innermost first
Stages(m) ==
    IF m = "fast" THEN <<"fast">>
    ELSE IF m = "accurate" THEN <<"accurate">>
    ELSE <<"fast", "accurate">>

HasStage(m, st) == \E i \in 1..Len(Stages(m)) : Stages(m)[i] = st

\* is_hevc on MediaInfo's answer
is_hevc(codec_id) == codec_id \in {"hev1", "hvc1"}

FindStart ==
    /\ pc = "start" /\ cmd = "find"
    /\ pc' = "iter" /\ dirsTodo' = TreeDirs /\ snapshot' = {}
    /\ UNCHANGED <<cmd, move_source, delete_source, method, limit, video_path,
                   fs, fs0, cur, log, run, err, yielded, probed, iter, nm,
                   nmRes>>

\* one entry goes through the chained filters; an entry that comes out is
\* taken by the loop of find, which prints it or breaks at the limit
FindNext ==
    /\ pc = "iter" /\ cmd = "find"
    /\ \E vid \in snapshot, codec_id \in ProbeAnswers :
        /\ snapshot' = snapshot \ {vid}
        /\ IF HasStage(method, "fast") /\ ~FastKeep(vid)
           THEN UNCHANGED <<pc, err, yielded, probed, iter>>
           ELSE IF HasStage(method, "accurate")
                   /\ (codec_id = "none" \/ is_hevc(codec_id))
           THEN /\ probed' = probed \cup {vid}
                /\ pc' = IF codec_id = "none" THEN "error" ELSE pc
                /\ err' = IF codec_id = "none" THEN "IndexError" ELSE err
                /\ UNCHANGED <<yielded, iter>>
           ELSE /\ probed' = IF HasStage(method, "accurate")
                             THEN probed \cup {vid} ELSE probed
                /\ yielded' = yielded \cup {vid}
                /\ IF limit # NoLimit /\ iter > limit
                   THEN pc' = "done" /\ iter' = iter
                   ELSE pc' = pc /\ iter' = iter + 1
                /\ err' = err
    /\ UNCHANGED <<cmd, move_source, delete_source, method, limit, video_path,
                   fs, fs0, dirsTodo, cur, log, run>>
    /\ UNCHANGED <<nm, nmRes>>

FindEnd ==
    /\ pc = "iter" /\ cmd = "find" /\ snapshot = {} /\ dirsTodo = <<>>
    /\ pc' = "done"
    /\ UNCHANGED <<cmd, move_source, delete_source, method, limit, video_path,
                   fs, fs0, dirsTodo, snapshot, cur, log, run, err, yielded,
                   probed, iter, nm, nmRes>>

----------------------------------------------------------------------------
(* The commands and the files they are started on *)

A_MP4 == <<"a", ".", "mp4">>
A_MKV == <<"a", ".", "mkv">>
B_MP4 == <<"b", ".", "mp4">>
A_X265_MP4 == <<"a", ".", "x265", ".", "mp4">>
A_MP4_JPG == <<"a", ".", "mp4", ".", "jpg">>

\* the files that may be on disk at the start
InitPaths ==
    {P(d, n) : d \in {"root", "root/sub"},
               n \in {A_MP4, A_MKV, A_X265_MP4, A_MP4_JPG}}
    \cup {P("root", B_MP4), P("ext", A_MP4)}

\* the values given to --move-source: none, a directory of the tree, one
\* outside it, and a path that is no directory
MoveSources == {NoDir, "root", "root/sub", "ext", "nowhere"}

Commands ==
    [cmd : {"batch"}, move_source : MoveSources, delete_source : BOOLEAN,
     method : {"fast"}, limit : {NoLimit}, video_path : {NoPath}]
    \cup
    [cmd : {"transcode"}, move_source : {NoDir}, delete_source : BOOLEAN,
     method : {"fast"}, limit : {NoLimit},
     video_path : {P("root", A_MP4), P("root", A_MKV)}]
    \cup
    [cmd : {"find"}, move_source : {NoDir}, delete_source : {FALSE},
     method : Methods, limit : {NoLimit, 1}, video_path : {NoPath}]

NoRes == [video |-> FALSE, excluded |-> FALSE, files |-> NoFiles]

Init ==
    /\ \E c \in Commands :
        /\ cmd = c.cmd
        /\ move_source = c.move_source
        /\ delete_source = c.delete_source
        /\ method = c.method
        /\ limit = c.limit
        /\ video_path = c.video_path
    /\ \E S \in SUBSET InitPaths :
        /\ Cardinality(S) <= MaxFiles
        /\ fs = [p \in S |-> Orig(p)]
    /\ fs0 = fs
    /\ pc = "start"
    /\ dirsTodo = <<>>
    /\ snapshot = {}
    /\ cur = NoFiles
    /\ log = <<>>
    /\ run = 1
    /\ err = ""
    /\ yielded = {}
    /\ probed = {}
    /\ iter = 1
    /\ nm = <<>>
    /\ nmRes = NoRes

Next ==
    \/ BatchStart
    \/ ListDir
    \/ BatchNext
    \/ BatchEncoderExit
    \/ BatchVcsExit
    \/ BatchEnd
    \/ Rerun
    \/ TranscodeStart
    \/ TranscodeEncoderExit
    \/ FindStart
    \/ FindNext
    \/ FindEnd

Spec == Init /\ [][Next]_vars

----------------------------------------------------------------------------
(* The naming rules on their own: every name up to MaxNameLen tokens *)

NameTokens == {"a", ".", "x265", "mp4", "mkv", "MP4"}

Names == UNION {[1..k -> NameTokens] : k \in 1..MaxNameLen}

InitNamer ==
    /\ nm \in Names
    /\ cmd = "name"
    /\ pc = "name"
    /\ move_source = NoDir
    /\ delete_source = FALSE
    /\ method = "fast"
    /\ limit = NoLimit
    /\ video_path = NoPath
    /\ fs = <<>>
    /\ fs0 = <<>>
    /\ dirsTodo = <<>>
    /\ snapshot = {}
    /\ cur = NoFiles
    /\ log = <<>>
    /\ run = 1
    /\ err = ""
    /\ yielded = {}
    /\ probed = {}
    /\ iter = 1
    /\ nmRes = NoRes

\* get_videos on a file of that name
NameDiscover ==
    /\ pc = "name"
    /\ pc' = IF IsVideo(P("root", nm)) THEN "video" ELSE "dropped"
    /\ UNCHANGED <<cmd, move_source, delete_source, method, limit, video_path,
                   fs, fs0, dirsTodo, snapshot, cur, log, run, err, yielded,
                   probed, iter, nm, nmRes>>

\* fast() on it, and TranscodeFiles.new
NameClassify ==
    /\ pc = "video"
    /\ pc' = "classified"
    /\ nmRes' = [video |-> TRUE, excluded |-> ~FastKeep(P("root", nm)),
                 files |-> TranscodeFilesNew(P("root", nm))]
    /\ UNCHANGED <<cmd, move_source, delete_source, method, limit, video_path,
                   fs, fs0, dirsTodo, snapshot, cur, log, run, err, yielded,
                   probed, iter, nm>>

NextNamer == NameDiscover \/ NameClassify

SpecNamer == InitNamer /\ [][NextNamer]_vars

----------------------------------------------------------------------------
(* Properties *)

Idx == 1..Len(log)

Touches == {"spawn_enc", "spawn_vcs", "rename", "remove"}

ExitedOk(e, file, r, before) ==
    \E j \in 1..(before - 1) :
        /\ log[j].ev = e /\ log[j].status = 0
        /\ log[j].file = file /\ log[j].run = r

\* the videos get_videos finds under the root, and those fast() keeps
AllVideos == {f \in DOMAIN fs0 : InTree(f.dir) /\ IsVideo(f)}
FastResult == {f \in AllVideos : FastKeep(f)}

Stem(n) == SubSeq(n, 1, Len(n) - Len(Suffix(n)))

\* C1: a file of the batch whose output video exists when it is reached is
\* left alone in that run: no encoder and no contact-sheet invocation is
\* made for it, neither it nor its contact sheet is renamed or removed, and
\* it is still where it was.
C1_SkipLeavesFileAlone ==
    \A i \in Idx :
        (log[i].ev = "reach" /\ log[i].status = 1) =>
            /\ \A j \in Idx :
                (log[j].run = log[i].run /\ log[j].ev \in Touches) =>
                    /\ log[j].file # log[i].file
                    /\ log[j].src # log[i].file
                    /\ log[j].src # VideoFilesNew(log[i].file).vcs
            /\ (log[i].run = run => log[i].file \in DOMAIN fs)

C1_Witness ==
    /\ cmd = "batch" /\ pc = "done" /\ move_source = "ext"
    /\ \E i, j \in Idx :
        /\ log[i].ev = "reach" /\ log[i].status = 1
        /\ log[j].ev = "rename" /\ log[j].run = log[i].run

\* C2 as claimed: whenever the encoder runs, for batch and for transcode,
\* its command holds -n and its output path does not exist.
C2_Original ==
    pc = "encoding" =>
        /\ HasFlag(log[Len(log)].flags, "-n")
        /\ cur.output.video \notin DOMAIN fs

\* C2 as amended: whenever the encoder runs its command holds -n; when it
\* runs for the batch command its output path does not exist.
C2_NoOverwrite ==
    pc = "encoding" =>
        /\ log[Len(log)].ev = "spawn_enc"
        /\ HasFlag(log[Len(log)].flags, "-n")
        /\ (cmd = "batch" => cur.output.video \notin DOMAIN fs)

C2_Witness ==
    /\ pc = "encoding" /\ cmd = "batch"
    /\ \E i \in Idx : log[i].ev = "reach" /\ log[i].status = 1

\* C3: a batch given both --move-source and --delete-source, or a
\* --move-source that is no directory, ends with Abort, respectively
\* FileNotFoundError, with nothing listed, no process started and the
\* filesystem as it was.
C3_FailFast ==
    (/\ cmd = "batch"
     /\ move_source # NoDir
     /\ (delete_source \/ move_source \notin Dirs)) =>
        /\ pc \in {"start", "error"}
        /\ (pc = "error" =>
                err = IF delete_source THEN "Abort" ELSE "FileNotFoundError")
        /\ log = <<>>
        /\ fs = fs0
        /\ dirsTodo = <<>>
        /\ snapshot = {}

C3_Witness ==
    /\ cmd = "batch" /\ pc = "error" /\ err = "Abort"
    /\ move_source = "ext"
    /\ P("root", A_MP4) \in DOMAIN fs

\* the step in which the batch finishes a file under --move-source
MoveStep ==
    /\ cmd = "batch" /\ move_source # NoDir
    /\ pc = "sheeting" /\ pc' = "iter"

MovedTo(p) == P(move_source, p.name)

\* C4 as claimed: when the batch has finished a file under --move-source,
\* the video (and its contact sheet, if there was one) is gone from where it
\* was and is in the destination under its name with its content.
C4_Original ==
    [][MoveStep =>
        LET v == cur.input.video
            s == cur.input.vcs
        IN  /\ v \notin DOMAIN fs'
            /\ MovedTo(v) \in DOMAIN fs'
            /\ fs'[MovedTo(v)] = fs[v]
            /\ (s \in DOMAIN fs =>
                    /\ s \notin DOMAIN fs'
                    /\ MovedTo(s) \in DOMAIN fs'
                    /\ fs'[MovedTo(s)] = fs[s])]_vars

\* C4 as amended: when the batch has finished a file under --move-source
\* (encoder and contact-sheet tool have both exited 0), the video (and its
\* contact sheet, if there was one) is in the destination under its name
\* with its content, and it is gone from where it was unless the destination
\* is the directory it was in.
C4_Moved ==
    [][MoveStep =>
        LET v == cur.input.video
            s == cur.input.vcs
        IN  /\ MovedTo(v) \in DOMAIN fs'
            /\ fs'[MovedTo(v)] = fs[v]
            /\ (v.dir # move_source => v \notin DOMAIN fs')
            /\ (s \in DOMAIN fs =>
                    /\ MovedTo(s) \in DOMAIN fs'
                    /\ fs'[MovedTo(s)] = fs[s]
                    /\ (s.dir # move_source => s \notin DOMAIN fs'))]_vars

C4_Witness ==
    /\ cmd = "batch" /\ pc = "iter"
    /\ \E i, j \in Idx :
        /\ log[i].ev = "rename" /\ log[i].src = log[i].file
        /\ log[i].src.dir # log[i].dst.dir
        /\ log[j].ev = "rename" /\ log[j].file = log[i].file
        /\ log[j].src = VideoFilesNew(log[i].file).vcs
        /\ log[j].dst \in DOMAIN fs

\* C5: under --delete-source, once the encoder and the contact-sheet tool
\* have exited 0 for a file of the batch, the video is removed and the
\* post-action raises nothing, whether the video had a contact sheet or not.
C5_DeleteCompletes ==
    (cmd = "batch" /\ delete_source /\ move_source = NoDir) =>
        \A i \in Idx :
            (log[i].ev = "exit_vcs" /\ log[i].status = 0) =>
                /\ \E j \in Idx :
                    /\ j > i /\ log[j].ev = "remove"
                    /\ log[j].src = log[i].file
                /\ ~(i = Len(log) - 1 /\ pc = "error")
                /\ (log[i].run = run => log[i].file \notin DOMAIN fs)

\* C6: under the semi-accurate method, what is yielded, and what the probe
\* is applied to, is among what the fast method yields on the same files.
C6_SemiSubsetOfFast ==
    (cmd = "find" /\ method = "semi-accurate") =>
        /\ yielded \subseteq FastResult
        /\ probed \subseteq FastResult

C6_Witness ==
    /\ cmd = "find" /\ method = "semi-accurate" /\ pc = "done"
    /\ limit = NoLimit
    /\ yielded # {}
    /\ yielded # FastResult
    /\ FastResult # AllVideos

\* the tag TranscodeFiles.new puts before the extension
TranscodedTag == <<".", "x265">>

\* C7 as claimed: the fast method excludes a video exactly when its name
\* without the extension ends with ".x265".
C7_Original ==
    pc = "classified" =>
        (nmRes.excluded <=> endswith(Stem(nm), TranscodedTag))

\* C7 as amended: the fast method excludes a video exactly when its
\* extension is ".mp4" in lower case and its name without the extension ends
\* with the characters "x265", with or without a dot before them.
C7_FastExcludes ==
    pc = "classified" =>
        (nmRes.excluded <=>
            /\ Suffix(nm) = <<".", "mp4">>
            /\ endswith(Stem(nm), <<"x265">>))

C7_Witness ==
    /\ pc = "classified" /\ nmRes.excluded
    /\ ~endswith(Stem(nm), TranscodedTag)

\* C8 as claimed: in a run that follows a run without error, nothing is
\* invoked, renamed or removed, whatever the post-action.
C8_Original ==
    \A i \in Idx : log[i].run >= 2 => log[i].ev \notin Touches

\* C8 as amended: the same, for a batch without post-action, with
\* --delete-source, or with a --move-source outside the root tree.
C8_RerunIdle ==
    ~InTree(move_source) =>
        \A i \in Idx : log[i].run >= 2 => log[i].ev \notin Touches

C8_Witness ==
    /\ cmd = "batch" /\ run = 2 /\ pc = "done" /\ move_source = "ext"
    /\ \E i, j \in Idx :
        /\ log[i].run = 1 /\ log[i].ev = "rename"
        /\ log[j].run = 2 /\ log[j].ev = "reach"

\* C9: in the batch, the contact-sheet tool is started for a file only
\* right after the encoder has exited 0 for that file, on the output video
\* and the output's contact-sheet path, never on the input; after a non-zero
\* exit of the encoder it is not started for that file.
C9_SheetAfterEncoder ==
    cmd = "batch" =>
        /\ \A i \in Idx :
            log[i].ev = "spawn_vcs" =>
                /\ i > 1
                /\ log[i - 1].ev = "exit_enc"
                /\ log[i - 1].status = 0
                /\ log[i - 1].file = log[i].file
                /\ log[i - 1].run = log[i].run
                /\ log[i].src = TranscodeFilesNew(log[i].file).output.video
                /\ log[i].dst = TranscodeFilesNew(log[i].file).output.vcs
                /\ log[i].src # log[i].file
        /\ \A i \in Idx :
            (log[i].ev = "exit_enc" /\ log[i].status # 0) =>
                ~\E j \in Idx :
                    /\ log[j].ev = "spawn_vcs"
                    /\ log[j].file = log[i].file
                    /\ log[j].run = log[i].run

C9_Witness ==
    /\ cmd = "batch" /\ pc = "error"
    /\ \E i, j \in Idx :
        /\ i < j
        /\ log[i].ev = "spawn_vcs"
        /\ log[j].ev = "exit_enc" /\ log[j].status # 0

\* C10: a source video is renamed or removed, or is missing from where it
\* was, only after the encoder has exited 0 for it and, in the batch, the
\* contact-sheet tool has exited 0 for its output.
C10_SourceKeptOnFailure ==
    /\ \A i \in Idx :
        (log[i].ev \in {"rename", "remove"} /\ log[i].src = log[i].file) =>
            /\ ExitedOk("exit_enc", log[i].file, log[i].run, i)
            /\ (cmd = "batch" =>
                    ExitedOk("exit_vcs", log[i].file, log[i].run, i))
    /\ \A p \in DOMAIN fs0 :
        (IsVideo(p) /\ p \notin DOMAIN fs) =>
            \E r \in 1..run :
                /\ ExitedOk("exit_enc", p, r, Len(log) + 1)
                /\ (cmd = "batch" => ExitedOk("exit_vcs", p, r, Len(log) + 1))

C10_Witness ==
    /\ pc = "error" /\ err = "CalledProcessError"
    /\ \E i \in Idx : log[i].ev = "remove" /\ log[i].src = log[i].file
    /\ \E p \in DOMAIN fs0 : IsVideo(p) /\ p \notin DOMAIN fs

====
